---- MODULE Spec2Model ----
(***************************************************************************)
(* Model of the SPIM transport engine of utilities/src/spi.rs (Spec) and   *)
(* of the ST7735 driver of utilities/src/st7735s.rs over a transport       *)
(* (SpecDrv).  SpecLive is the engine with a CPU that keeps executing and  *)
(* a peripheral that ends what it has started; SpecNested is the engine    *)
(* with one call run nested inside another.                                *)
(*                                                                         *)
(* The engine is one CPU thread that calls the operations of Spim and the  *)
(* SPIM peripheral with EasyDMA, which it drives through its registers.    *)
(* An operation is followed statement by statement: the entry check, the   *)
(* chunk iterator, and for each chunk the steps of do_spi_dma_transfer.    *)
(*                                                                         *)
(* The address space and the sizes are scaled down so that buffers of      *)
(* several chunks can be enumerated byte by byte.  The relations between   *)
(* the constants of the source are kept:                                   *)
(*   EASY_DMA_SIZE = 2^MAXCNT_BITS - 1   (source 65535 = 2^16 - 1)          *)
(*   FORCE_COPY_BUFFER_SIZE < EASY_DMA_SIZE        (source 1024 < 65535)   *)
(*   0 < SRAM_LOWER < SRAM_UPPER   (source 0x2000_0000 < 0x3000_0000)      *)
(***************************************************************************)
EXTENDS Integers, Sequences, FiniteSets, TLC

\* ------------------------------------------------------------------------
\* Constants of the source (scaled, see above)
\* ------------------------------------------------------------------------
\* width of the TXD.MAXCNT / RXD.MAXCNT fields (source: 16 bits)
MAXCNT_BITS == 3
\* source: 65535
EASY_DMA_SIZE == 7
\* source: 0x2000_0000
SRAM_LOWER == 32
\* source: 0x3000_0000
SRAM_UPPER == 128
\* source: 1024
FORCE_COPY_BUFFER_SIZE == 2
\* the over-read character given to Spim::new
ORC == 0

\* ------------------------------------------------------------------------
\* Bounds of the model
\* ------------------------------------------------------------------------
\* the longest buffer spans MaxChunks chunks of EASY_DMA_SIZE bytes
MaxChunks == 3

MaxLen == (MaxChunks - 1) * EASY_DMA_SIZE + 1
\* buffer lengths: empty, the lengths 3 and 5 of the spec's example, one byte
\* more than a chunk, and the longest buffer
Lens == {0, 3, 5, EASY_DMA_SIZE + 1, MaxLen}
\* where a transmit buffer of length n can start: in flash, across the lower
\* end of the region, at its first byte, ending one byte before its last
\* byte, ending at its last byte, across the upper end, and above it
TxPtrs(n) ==
    {0, SRAM_LOWER - 1, SRAM_LOWER, SRAM_UPPER - n - 1, SRAM_UPPER - n,
     SRAM_UPPER - 1, SRAM_UPPER}
\* a receive buffer is a &mut [u8]: it is in RAM, apart from the transmit buffer
RX_PTR == SRAM_LOWER + MaxLen + 1
\* spi_dma_copy's buf lives on the stack, which is in RAM
BOUNCE_PTR == RX_PTR + MaxLen + 1
\* selector counts given to send_command_data
CommandBytes == {1, 2}

OpNames ==
    {"Write_write", "Transfer_transfer", "send_command_data", "transfer",
     "transfer_split_even", "transfer_split_uneven", "write"}
\* the operations that take a separate receive buffer
SplitOps == {"transfer_split_even", "transfer_split_uneven"}

\* ------------------------------------------------------------------------
\* Arithmetic helpers
\* ------------------------------------------------------------------------
Min(a, b) == IF a <= b THEN a ELSE b
Max(a, b) == IF a >= b THEN a ELSE b
CeilDiv(a, b) == (a + b - 1) \div b

\* ------------------------------------------------------------------------
\* Memory
\* ------------------------------------------------------------------------
\* the byte a buffer holds at address a when the caller hands it over
Mem0(a) == (a % 100) + 1
\* what a DMA read outside the region yields (unspecified by the hardware)
BUS_GARBAGE == -1
\* the byte the peripheral's slave answers at the n-th clocked byte of a call
Miso(n) == 128 + (n % 64)

Slice(p, n) == [ptr |-> p, len |-> n]

\* the true addressable region [SRAM_LOWER, SRAM_UPPER) of the data model
InRegion(s) == SRAM_LOWER <= s.ptr /\ s.ptr + s.len <= SRAM_UPPER

\* ------------------------------------------------------------------------
\* spi.rs: free functions and DmaSlice
\* ------------------------------------------------------------------------
slice_in_ram(s) == s.ptr >= SRAM_LOWER /\ (s.ptr + s.len) < SRAM_UPPER

\* Ok(()) is "Ok"; Err(err) is err
slice_in_ram_or(s, err) == IF slice_in_ram(s) THEN "Ok" ELSE err

DmaSlice_null == [ptr |-> 0, len |-> 0]

DmaSlice_from_slice(s) == [ptr |-> s.ptr, len |-> s.len]

\* <[u8]>::chunks(sz): consecutive pieces of sz bytes, the last one shorter
chunks(s, sz) ==
    [i \in 1..CeilDiv(s.len, sz) |->
        Slice(s.ptr + (i - 1) * sz, Min(sz, s.len - (i - 1) * sz))]

\* Option<&[u8]>
Some(s) == [some |-> TRUE, v |-> s]
None == [some |-> FALSE, v |-> Slice(0, 0)]

\* Iterator::zip, over finite sequences
zip(a, b) == [i \in 1..Min(Len(a), Len(b)) |-> <<a[i], b[i]>>]


\* .map(|c| Some(c)).chain(repeat_with(|| None)), cut after n elements: the
\* zip below never looks further than one element past the longer side
chain_repeat_none(cs, n) ==
    [i \in 1..n |-> IF i <= Len(cs) THEN Some(cs[i]) ELSE None]

\* Iterator::take_while: the longest prefix of s whose elements all satisfy
\* the predicate; ps[i] is the predicate's value on s[i]
take_while(s, ps) ==
    LET n == CHOOSE m \in 0..Len(s) :
                 /\ \A i \in 1..m : ps[i]
                 /\ (m = Len(s) \/ ~ps[m + 1])
    IN SubSeq(s, 1, n)

\* ------------------------------------------------------------------------
\* The work list of each operation: what its try_for_each visits, in order.
\* An item is the pair of descriptors given to do_spi_dma_transfer; for
\* spi_dma_copy tx is the chunk that is first copied to the stack buffer.
\* ------------------------------------------------------------------------
Item(st, t, r) == [step |-> st, tx |-> t, rx |-> r]

\* a write that never copies (mutant of Write_needs_copy)
Write_needs_copy_never(words) == FALSE

\* impl Write<u8> for Spim: write
Write_needs_copy(words) == ~slice_in_ram(words)

Write_chunk_sz(words) ==
    IF Write_needs_copy(words) THEN FORCE_COPY_BUFFER_SIZE ELSE EASY_DMA_SIZE

Write_step(words) ==
    IF Write_needs_copy(words) THEN "spi_dma_copy" ELSE "spi_dma_no_copy"

\* the chunk is given as the receive descriptor too
Write_write_items_receiving(words) ==
    LET cs == chunks(words, Write_chunk_sz(words))
    IN [i \in 1..Len(cs) |-> Item(Write_step(words), cs[i], cs[i])]

Write_write_items(words) ==
    LET cs == chunks(words, Write_chunk_sz(words))
    IN [i \in 1..Len(cs) |-> Item(Write_step(words), cs[i], DmaSlice_null)]

\* Spim::transfer and impl Transfer<u8> for Spim: the same chunk on both sides
transfer_items(buffer) ==
    LET cs == chunks(buffer, EASY_DMA_SIZE)
    IN [i \in 1..Len(cs) |->
           Item("dma", DmaSlice_from_slice(cs[i]), DmaSlice_from_slice(cs[i]))]

\* Spim::transfer_split_even
transfer_split_even_items(tx_buffer, rx_buffer) ==
    LET txi == chunks(tx_buffer, EASY_DMA_SIZE)
        rxi == chunks(rx_buffer, EASY_DMA_SIZE)
        z == zip(txi, rxi)
    IN [i \in 1..Len(z) |->
           Item("dma", DmaSlice_from_slice(z[i][1]), DmaSlice_from_slice(z[i][2]))]

\* Spim::transfer_split_uneven: the closure of take_while
uneven_take_while(p) == p[1].some /\ p[2].some

\* Spim::transfer_split_uneven: the closure of map
uneven_map(o) == IF o.some THEN DmaSlice_from_slice(o.v) ELSE DmaSlice_null

transfer_split_uneven_items(tx_buffer, rx_buffer) ==
    LET tcs == chunks(tx_buffer, EASY_DMA_SIZE)
        rcs == chunks(rx_buffer, EASY_DMA_SIZE)
        n == Max(Len(tcs), Len(rcs)) + 1
        txi == chain_repeat_none(tcs, n)
        rxi == chain_repeat_none(rcs, n)
        z == zip(txi, rxi)
        tw == take_while(z, [i \in 1..Len(z) |-> uneven_take_while(z[i])])
    IN [i \in 1..Len(tw) |->
           Item("dma", uneven_map(tw[i][1]), uneven_map(tw[i][2]))]

\* Spim::write: transfer_split_uneven(tx_buffer, &mut [0u8; 0])
write_items(tx_buffer) ==
    transfer_split_uneven_items(tx_buffer, Slice(RX_PTR, 0))

\* Spim::write_dc: one transaction for the whole buffer
write_dc_items(tx_buffer) ==
    <<Item("dma", DmaSlice_from_slice(tx_buffer), DmaSlice_null)>>

Items(o, t, r) ==
    CASE o = "Write_write" -> Write_write_items(t)
      [] o \in {"Transfer_transfer", "transfer"} -> transfer_items(t)
      [] o = "transfer_split_even" -> transfer_split_even_items(t, r)
      [] o = "transfer_split_uneven" -> transfer_split_uneven_items(t, r)
      [] o = "write" -> write_items(t)
      [] o = "send_command_data" -> write_dc_items(t)

\* transfer_split_even without its check (mutant of entry_check)
entry_check_even_unchecked(o, t) ==
    IF o \in {"Write_write", "transfer_split_even"}
    THEN "Ok"
    ELSE slice_in_ram_or(t, "DMABufferNotInDataMemory")

\* the check each operation makes before it touches a register: the first
\* statement of Transfer::transfer, transfer, transfer_split_even,
\* transfer_split_uneven, write and write_dc; Write::write has none
entry_check(o, t) ==
    IF o = "Write_write"
    THEN "Ok"
    ELSE slice_in_ram_or(t, "DMABufferNotInDataMemory")


\* ------------------------------------------------------------------------
\* State
\* ------------------------------------------------------------------------
VARIABLES
    pc,          \* where the CPU is: "idle" between calls, else the next step
    op,          \* the operation being (or last) executed
    txbuf,       \* its transmit buffer (ptr, len)
    rxbuf,       \* its receive buffer (ptr, len)
    cmd,         \* command_bytes of send_command_data
    k,           \* how many items of the work list are done
    dtx,         \* do_spi_dma_transfer's argument tx
    drx,         \* do_spi_dma_transfer's argument rx
    result,      \* what the last call returned; "none" while one runs
    txd_ptr,     \* register TXD.PTR
    txd_maxcnt,  \* register TXD.MAXCNT
    rxd_ptr,     \* register RXD.PTR
    rxd_maxcnt,  \* register RXD.MAXCNT
    dcxcnt,      \* register DCXCNT
    events_end,  \* register EVENTS_END
    txd_amount,  \* register TXD.AMOUNT
    rxd_amount,  \* register RXD.AMOUNT
    dma,         \* the transaction the peripheral is executing, if any
    ram,         \* the bytes written to RAM since the call began
    wire,        \* history: the bytes put on MOSI since the call began
    sent,        \* history: those of them that were read from memory
    txns,        \* history: the transactions started since the call began
    ended,       \* history: how many transactions ended since the call began
    fault,       \* history: the peripheral moved less than its registers asked
    mism,        \* history: an amount differed from the length requested
    prev,        \* history: what the call before this one returned
    lastdc,      \* history: the selector count of the most recent
                 \* send_command_data call and whether it passed its check
    saved,       \* the CPU state of a call that a nested call has interrupted
    nested,      \* history: a nested call has been made
    rgb,         \* ST7735.rgb: the panel is RGB (TRUE) or BGR (FALSE)
    inverted,    \* ST7735.inverted
    dx,          \* ST7735.dx, the stored column offset
    dy,          \* ST7735.dy, the stored row offset
    overflow_checks, \* the build panics on integer overflow (else it wraps)
    dpc,         \* where the driver is: "idle", "run" or "halt" (panicked)
    dop,         \* the driver operation being (or last) executed
    dargs,       \* its arguments
    script,      \* the steps the operation takes unless one of them fails
    di,          \* how many of them are done
    dres,        \* what the operation returned; "none" while it runs
    log,         \* history: the frames handed to send_command_data and the
                 \* delays made since the operation began
    terr         \* history: what the last send_command_data of the operation
                 \* returned, "none" before the first

regs == <<txd_ptr, txd_maxcnt, rxd_ptr, rxd_maxcnt, dcxcnt, events_end,
          txd_amount, rxd_amount>>
call == <<op, txbuf, rxbuf, cmd>>
hist == <<wire, sent, txns, ended, fault, mism, prev, lastdc>>
isr == <<saved, nested>>
eng == <<pc, call, k, dtx, drx, result, regs, dma, ram, hist, isr>>
drv == <<rgb, inverted, dx, dy, overflow_checks, dpc, dop, dargs, script, di,
         dres, log, terr>>
vars == <<eng, drv>>

\* no send_command_data call has been made
NoDcx == [cmd |-> 0, ok |-> FALSE]

\* the record of a call of operation o for buffer t with selector count c
Lastdc(o, t, c) ==
    IF o = "send_command_data"
    THEN [cmd |-> c, ok |-> (entry_check(o, t) = "Ok")]
    ELSE lastdc

DmaIdle == [active |-> FALSE, tx |-> DmaSlice_null, rx |-> DmaSlice_null]

\* what the CPU reads at address a
CpuRead(a) == IF a \in DOMAIN ram THEN ram[a] ELSE Mem0(a)

\* what EasyDMA reads at address a: it can only read data RAM
DmaRead(a) ==
    IF SRAM_LOWER <= a /\ a < SRAM_UPPER THEN CpuRead(a) ELSE BUS_GARBAGE

\* the bytes of a slice as the CPU sees them
Bytes(s) == [i \in 1..s.len |-> CpuRead(s.ptr + i - 1)]

\* the bytes a buffer held when the caller handed it over
Bytes0(s) == [i \in 1..s.len |-> Mem0(s.ptr + i - 1)]

\* a register field of MAXCNT_BITS bits keeps the low bits of what is written
MaxcntField(v) == v % (2 ^ MAXCNT_BITS)

\* Spim::new leaves the DMA registers at their reset value
SpimNew ==
    /\ pc = "idle"
    /\ op = "none"
    /\ txbuf = Slice(0, 0)
    /\ rxbuf = Slice(0, 0)
    /\ cmd = 0
    /\ k = 0
    /\ dtx = DmaSlice_null
    /\ drx = DmaSlice_null
    /\ result = "none"
    /\ txd_ptr = 0
    /\ txd_maxcnt = 0
    /\ rxd_ptr = 0
    /\ rxd_maxcnt = 0
    /\ dcxcnt = 0
    /\ events_end = 0
    /\ txd_amount = 0
    /\ rxd_amount = 0
    /\ dma = DmaIdle
    /\ ram = <<>>
    /\ wire = <<>>
    /\ sent = <<>>
    /\ txns = <<>>
    /\ ended = 0
    /\ fault = FALSE
    /\ mism = FALSE
    /\ prev = "none"
    /\ lastdc = NoDcx
    /\ saved = <<>>
    /\ nested = FALSE

\* ST7735::new stores its arguments and a zero offset; nothing has run yet
ST7735_new(r, i) ==
    /\ rgb = r
    /\ inverted = i
    /\ dx = 0
    /\ dy = 0
    /\ dpc = "idle"
    /\ dop = "none"
    /\ dargs = <<>>
    /\ script = <<>>
    /\ di = 0
    /\ dres = "none"
    /\ log = <<>>
    /\ terr = "none"

\* The transport on its own: the driver is constructed as the example does
\* (examples/display.rs) and never called.
Init ==
    /\ SpimNew
    /\ ST7735_new(FALSE, TRUE)
    /\ overflow_checks = FALSE

\* ------------------------------------------------------------------------
\* The operations
\* ------------------------------------------------------------------------
\* A call of operation o: the caller hands over its buffers, which hold the
\* bytes Mem0 (what earlier calls wrote to RAM is the caller's to overwrite),
\* the operation makes its entry check and either returns the error or
\* starts iterating.  The registers are as the call before left them.
Call(o, t, r, c) ==
    /\ UNCHANGED <<drv, isr>>
    /\ pc = "idle"
    /\ op' = o
    /\ txbuf' = t
    /\ rxbuf' = r
    /\ cmd' = c
    /\ k' = 0
    /\ ram' = <<>>
    /\ wire' = <<>>
    /\ sent' = <<>>
    /\ txns' = <<>>
    /\ ended' = 0
    /\ fault' = FALSE
    /\ mism' = FALSE
    /\ prev' = result
    /\ lastdc' = Lastdc(o, t, c)
    /\ IF entry_check(o, t) = "Ok"
       THEN pc' = "iter" /\ result' = "none"
       ELSE pc' = "idle" /\ result' = entry_check(o, t)
    /\ UNCHANGED <<dtx, drx, regs, dma>>

\* try_for_each takes the next item: spi_dma_copy first copies the chunk to
\* its stack buffer and hands that on, the other steps hand on the item
NextChunk ==
    /\ UNCHANGED <<drv, isr>>
    /\ pc = "iter"
    /\ k < Len(Items(op, txbuf, rxbuf))
    /\ LET it == Items(op, txbuf, rxbuf)[k + 1]
       IN IF it.step = "spi_dma_copy"
          THEN /\ ram' = [a \in DOMAIN ram \cup
                                 (BOUNCE_PTR..(BOUNCE_PTR + it.tx.len - 1)) |->
                            IF a >= BOUNCE_PTR /\ a < BOUNCE_PTR + it.tx.len
                            THEN CpuRead(it.tx.ptr + (a - BOUNCE_PTR))
                            ELSE ram[a]]
               /\ dtx' = DmaSlice_from_slice(Slice(BOUNCE_PTR, it.tx.len))
               /\ drx' = DmaSlice_null
          ELSE /\ ram' = ram
               /\ dtx' = it.tx
               /\ drx' = it.rx
    /\ pc' = IF op = "send_command_data" THEN "dcx" ELSE "fence1"
    /\ UNCHANGED <<call, k, result, regs, dma, hist>>

\* try_for_each has visited every item: the operation returns Ok
ReturnOk ==
    /\ UNCHANGED <<drv, isr>>
    /\ pc = "iter"
    /\ k = Len(Items(op, txbuf, rxbuf))
    /\ pc' = "idle"
    /\ result' = "Ok"
    /\ dtx' = DmaSlice_null
    /\ drx' = DmaSlice_null
    /\ UNCHANGED <<call, k, regs, dma, ram, hist>>

\* the selector count is not written
WriteDcxcnt_skipped ==
    /\ UNCHANGED <<drv, isr>>
    /\ pc = "dcx"
    /\ pc' = "fence1"
    /\ UNCHANGED <<call, k, dtx, drx, result, regs, dma, ram, hist>>

\* do_spi_dma_transfer_dcx: configure DCX bytes
WriteDcxcnt ==
    /\ UNCHANGED <<drv, isr>>
    /\ pc = "dcx"
    /\ dcxcnt' = cmd
    /\ pc' = "fence1"
    /\ UNCHANGED <<call, k, dtx, drx, result, txd_ptr, txd_maxcnt, rxd_ptr,
                   rxd_maxcnt, events_end, txd_amount, rxd_amount, dma, ram,
                   hist>>

\* do_spi_dma_transfer, statement by statement
Fence1 ==
    /\ UNCHANGED <<drv, isr>>
    /\ pc = "fence1"
    /\ pc' = "txd_ptr"
    /\ UNCHANGED <<call, k, dtx, drx, result, regs, dma, ram, hist>>

WriteTxdPtr ==
    /\ UNCHANGED <<drv, isr>>
    /\ pc = "txd_ptr"
    /\ txd_ptr' = dtx.ptr
    /\ pc' = "txd_maxcnt"
    /\ UNCHANGED <<call, k, dtx, drx, result, txd_maxcnt, rxd_ptr, rxd_maxcnt,
                   dcxcnt, events_end, txd_amount, rxd_amount, dma, ram, hist>>

\* the start task follows without the receive side being programmed
WriteTxdMaxcnt_then_start ==
    /\ UNCHANGED <<drv, isr>>
    /\ pc = "txd_maxcnt"
    /\ txd_maxcnt' = MaxcntField(dtx.len)
    /\ pc' = "start"
    /\ UNCHANGED <<call, k, dtx, drx, result, txd_ptr, rxd_ptr, rxd_maxcnt,
                   dcxcnt, events_end, txd_amount, rxd_amount, dma, ram, hist>>

WriteTxdMaxcnt ==
    /\ UNCHANGED <<drv, isr>>
    /\ pc = "txd_maxcnt"
    /\ txd_maxcnt' = MaxcntField(dtx.len)
    /\ pc' = "rxd_ptr"
    /\ UNCHANGED <<call, k, dtx, drx, result, txd_ptr, rxd_ptr, rxd_maxcnt,
                   dcxcnt, events_end, txd_amount, rxd_amount, dma, ram, hist>>

WriteRxdPtr ==
    /\ UNCHANGED <<drv, isr>>
    /\ pc = "rxd_ptr"
    /\ rxd_ptr' = drx.ptr
    /\ pc' = "rxd_maxcnt"
    /\ UNCHANGED <<call, k, dtx, drx, result, txd_ptr, txd_maxcnt, rxd_maxcnt,
                   dcxcnt, events_end, txd_amount, rxd_amount, dma, ram, hist>>

WriteRxdMaxcnt ==
    /\ UNCHANGED <<drv, isr>>
    /\ pc = "rxd_maxcnt"
    /\ rxd_maxcnt' = MaxcntField(drx.len)
    /\ pc' = "start"
    /\ UNCHANGED <<call, k, dtx, drx, result, txd_ptr, txd_maxcnt, rxd_ptr,
                   dcxcnt, events_end, txd_amount, rxd_amount, dma, ram, hist>>

\* tasks_start: the peripheral takes the descriptors from the registers
TaskStart ==
    /\ UNCHANGED <<drv, isr>>
    /\ pc = "start"
    /\ dma' = [active |-> TRUE,
               tx |-> [ptr |-> txd_ptr, len |-> txd_maxcnt],
               rx |-> [ptr |-> rxd_ptr, len |-> rxd_maxcnt]]
    /\ txns' = Append(txns, [tx |-> [ptr |-> txd_ptr, len |-> txd_maxcnt],
                             rx |-> [ptr |-> rxd_ptr, len |-> rxd_maxcnt],
                             dcx |-> dcxcnt,
                             item |-> k + 1])
    /\ pc' = "fence2"
    /\ UNCHANGED <<call, k, dtx, drx, result, regs, ram, wire, sent, ended,
                   fault, mism, prev, lastdc>>

Fence2 ==
    /\ UNCHANGED <<drv, isr>>
    /\ pc = "fence2"
    /\ pc' = "poll"
    /\ UNCHANGED <<call, k, dtx, drx, result, regs, dma, ram, hist>>

\* the loop is left whether or not the event is set
PollEnd_no_wait ==
    /\ UNCHANGED <<drv, isr>>
    /\ pc = "poll"
    /\ pc' = "clear"
    /\ UNCHANGED <<call, k, dtx, drx, result, regs, dma, ram, hist>>

\* while events_end == 0 {}: the loop is left once the event is set
PollEnd ==
    /\ UNCHANGED <<drv, isr>>
    /\ pc = "poll"
    /\ events_end # 0
    /\ pc' = "clear"
    /\ UNCHANGED <<call, k, dtx, drx, result, regs, dma, ram, hist>>

\* the END event is not reset (mutant of ClearEnd)
ClearEnd_keep ==
    /\ UNCHANGED <<drv, isr>>
    /\ pc = "clear"
    /\ pc' = "fence3"
    /\ UNCHANGED <<call, k, dtx, drx, result, regs, dma, ram, hist>>

ClearEnd ==
    /\ UNCHANGED <<drv, isr>>
    /\ pc = "clear"
    /\ events_end' = 0
    /\ pc' = "fence3"
    /\ UNCHANGED <<call, k, dtx, drx, result, txd_ptr, txd_maxcnt, rxd_ptr,
                   rxd_maxcnt, dcxcnt, txd_amount, rxd_amount, dma, ram, hist>>

Fence3 ==
    /\ UNCHANGED <<drv, isr>>
    /\ pc = "fence3"
    /\ pc' = "amount"
    /\ UNCHANGED <<call, k, dtx, drx, result, regs, dma, ram, hist>>

\* the receive amount is compared first
amount_check_receive_first(txa, rxa, tx, rx) ==
    IF rxa # rx.len THEN "Receive"
    ELSE IF txa # tx.len THEN "Transmit"
    ELSE "Ok"

\* the result of do_spi_dma_transfer from the two amount registers
amount_check(txa, rxa, tx, rx) ==
    IF txa # tx.len THEN "Transmit"
    ELSE IF rxa # rx.len THEN "Receive"
    ELSE "Ok"

\* the operation goes on to the next item whatever the amounts
CheckAmounts_continue ==
    /\ UNCHANGED <<drv, isr>>
    /\ pc = "amount"
    /\ k' = k + 1
    /\ pc' = "iter"
    /\ UNCHANGED <<call, dtx, drx, result, regs, dma, ram, hist>>

\* the amount check; an error ends the operation (try_for_each and `?`),
\* success goes on to the next item
CheckAmounts ==
    /\ UNCHANGED <<drv, isr>>
    /\ pc = "amount"
    /\ LET res == amount_check(txd_amount, rxd_amount, dtx, drx)
       IN IF res = "Ok"
          THEN /\ k' = k + 1
               /\ pc' = "iter"
               /\ UNCHANGED <<result, dtx, drx>>
          ELSE /\ result' = res
               /\ pc' = "idle"
               /\ dtx' = DmaSlice_null
               /\ drx' = DmaSlice_null
               /\ k' = k
    /\ UNCHANGED <<call, regs, dma, ram, hist>>

\* ------------------------------------------------------------------------
\* The peripheral
\* ------------------------------------------------------------------------
\* what the peripheral may report for a side of n bytes: all of it, or one
\* byte less when the bus transaction is cut short
Amounts(n) == {n} \cup (IF n > 0 THEN {n - 1} ELSE {})

\* the transaction ends and the END event is not raised
HwEnd_no_event(txa, rxa) ==
    /\ UNCHANGED <<drv, isr>>
    /\ dma.active
    /\ txd_amount' = txa
    /\ rxd_amount' = rxa
    /\ events_end' = events_end
    /\ wire' = wire \o [j \in 1..Max(txa, rxa) |->
                           IF j <= txa THEN DmaRead(dma.tx.ptr + j - 1) ELSE ORC]
    /\ ram' = [a \in DOMAIN ram \cup (dma.rx.ptr..(dma.rx.ptr + rxa - 1)) |->
                  IF a >= dma.rx.ptr /\ a < dma.rx.ptr + rxa
                  THEN Miso(Len(wire) + (a - dma.rx.ptr))
                  ELSE ram[a]]
    /\ sent' = sent \o [j \in 1..txa |-> DmaRead(dma.tx.ptr + j - 1)]
    /\ ended' = ended + 1
    /\ fault' = (fault \/ txa # dma.tx.len \/ rxa # dma.rx.len)
    /\ mism' = (mism \/ txa # dtx.len \/ rxa # drx.len)
    /\ dma' = DmaIdle
    /\ UNCHANGED <<pc, call, k, dtx, drx, result, txd_ptr, txd_maxcnt,
                   rxd_ptr, rxd_maxcnt, dcxcnt, txns, prev, lastdc>>

\* The transaction ends: txa bytes were read from the transmit descriptor
\* and sent, over-read characters were sent while the receive side went on,
\* rxa received bytes were stored, and the END event is raised.
HwEnd(txa, rxa) ==
    /\ UNCHANGED <<drv, isr>>
    /\ dma.active
    /\ txd_amount' = txa
    /\ rxd_amount' = rxa
    /\ events_end' = 1
    /\ wire' = wire \o [j \in 1..Max(txa, rxa) |->
                           IF j <= txa THEN DmaRead(dma.tx.ptr + j - 1) ELSE ORC]
    /\ ram' = [a \in DOMAIN ram \cup (dma.rx.ptr..(dma.rx.ptr + rxa - 1)) |->
                  IF a >= dma.rx.ptr /\ a < dma.rx.ptr + rxa
                  THEN Miso(Len(wire) + (a - dma.rx.ptr))
                  ELSE ram[a]]
    /\ sent' = sent \o [j \in 1..txa |-> DmaRead(dma.tx.ptr + j - 1)]
    /\ ended' = ended + 1
    /\ fault' = (fault \/ txa # dma.tx.len \/ rxa # dma.rx.len)
    /\ mism' = (mism \/ txa # dtx.len \/ rxa # drx.len)
    /\ dma' = DmaIdle
    /\ UNCHANGED <<pc, call, k, dtx, drx, result, txd_ptr, txd_maxcnt,
                   rxd_ptr, rxd_maxcnt, dcxcnt, txns, prev, lastdc>>

\* ------------------------------------------------------------------------
\* Specification
\* ------------------------------------------------------------------------
\* Every call: operation, transmit buffer of every length at every place,
\* receive buffer (the transmit buffer itself for the in-place transfer),
\* selector count.
AllCalls ==
    {[op |-> o, tx |-> Slice(p, n),
      rx |-> IF o \in {"Transfer_transfer", "transfer"}
             THEN Slice(p, n) ELSE Slice(RX_PTR, m),
      cmd |-> c] :
        o \in OpNames, n \in Lens, p \in 0..SRAM_UPPER, m \in Lens,
        c \in CommandBytes \cup {0}}

InputCalls ==
    {c \in AllCalls :
        /\ c.tx.ptr \in TxPtrs(c.tx.len)
        /\ (c.op \notin SplitOps => c.rx.len = IF c.rx = c.tx THEN c.tx.len ELSE 0)
        /\ (c.cmd # 0) = (c.op = "send_command_data")}

\* The first call of a behaviour is any input call.  The calls that follow
\* a call meet the registers as that call left them; they are drawn from a
\* smaller set, which keeps the product of leftovers and calls small.
FollowUpCalls ==
    {c \in InputCalls :
        /\ c.tx \in {Slice(0, 3), Slice(SRAM_LOWER, 3),
                     Slice(SRAM_LOWER, EASY_DMA_SIZE + 1)}
        /\ (c.op \in SplitOps => c.rx.len = 5)}

CallAny ==
    \E c \in (IF op = "none" THEN InputCalls ELSE FollowUpCalls) :
        Call(c.op, c.tx, c.rx, c.cmd)

HwEndAny ==
    \E txa \in Amounts(dma.tx.len), rxa \in Amounts(dma.rx.len) : HwEnd(txa, rxa)

Next ==
    \/ CallAny
    \/ NextChunk
    \/ ReturnOk
    \/ WriteDcxcnt
    \/ Fence1
    \/ WriteTxdPtr
    \/ WriteTxdMaxcnt
    \/ WriteRxdPtr
    \/ WriteRxdMaxcnt
    \/ TaskStart
    \/ Fence2
    \/ PollEnd
    \/ ClearEnd
    \/ Fence3
    \/ CheckAmounts
    \/ HwEndAny

Spec == Init /\ [][Next]_vars

\* ------------------------------------------------------------------------
\* A nested call
\* ------------------------------------------------------------------------
\* Spim's operations take &mut self, which lets no second call begin before
\* the first has returned.  Were the exclusion lifted (an interrupt handler
\* that reaches the same instance), a call could run to its end between two
\* statements of another: the interrupted call's CPU state is saved, the
\* nested call goes through the statements above, and its return restores
\* the saved state; the registers and the peripheral are shared.  The
\* interrupt is taken while no transaction is in flight (what a start task
\* does to a running transaction is the peripheral's matter), once in a
\* behaviour.
NestedCall(o, t, r, c) ==
    /\ pc # "idle"
    /\ saved = <<>>
    /\ ~nested
    /\ ~dma.active
    /\ saved' = <<[pc |-> pc, op |-> op, txbuf |-> txbuf, rxbuf |-> rxbuf,
                   cmd |-> cmd, k |-> k, dtx |-> dtx, drx |-> drx,
                   result |-> result]>>
    /\ nested' = TRUE
    /\ op' = o
    /\ txbuf' = t
    /\ rxbuf' = r
    /\ cmd' = c
    /\ k' = 0
    /\ IF entry_check(o, t) = "Ok"
       THEN pc' = "iter" /\ result' = "none"
       ELSE pc' = "idle" /\ result' = entry_check(o, t)
    /\ lastdc' = Lastdc(o, t, c)
    /\ UNCHANGED <<dtx, drx, regs, dma, ram, wire, sent, txns, ended, fault,
                   mism, prev, drv>>

\* the nested call has returned: the interrupted call goes on
NestedReturn ==
    /\ pc = "idle"
    /\ saved # <<>>
    /\ pc' = saved[1].pc
    /\ op' = saved[1].op
    /\ txbuf' = saved[1].txbuf
    /\ rxbuf' = saved[1].rxbuf
    /\ cmd' = saved[1].cmd
    /\ k' = saved[1].k
    /\ dtx' = saved[1].dtx
    /\ drx' = saved[1].drx
    /\ result' = saved[1].result
    /\ saved' = <<>>
    /\ UNCHANGED <<nested, regs, dma, ram, hist, drv>>

\* the calls that are interrupted, and the calls made from the interrupt
NestedMainCalls ==
    {c \in FollowUpCalls :
        /\ c.op \in {"Write_write", "send_command_data", "transfer"}
        /\ c.tx = Slice(SRAM_LOWER, 3)}

NestedCalls ==
    {c \in FollowUpCalls :
        /\ c.op \in {"Write_write", "send_command_data"}
        /\ c.tx = Slice(SRAM_LOWER, EASY_DMA_SIZE + 1)}

\* a call of the owner: none while a nested call runs
CallMain ==
    /\ saved = <<>>
    /\ \E c \in NestedMainCalls : Call(c.op, c.tx, c.rx, c.cmd)

NestedCallAny == \E c \in NestedCalls : NestedCall(c.op, c.tx, c.rx, c.cmd)

\* The steps of the CPU inside an operation: the caller may never call, but
\* a call that has begun is executed.
CpuStep ==
    \/ NextChunk
    \/ ReturnOk
    \/ WriteDcxcnt
    \/ Fence1
    \/ WriteTxdPtr
    \/ WriteTxdMaxcnt
    \/ WriteRxdPtr
    \/ WriteRxdMaxcnt
    \/ TaskStart
    \/ Fence2
    \/ PollEnd
    \/ ClearEnd
    \/ Fence3
    \/ CheckAmounts

\* the calls of the liveness check: every operation (send_command_data with
\* one selector count), with a buffer in flash
\* and with a buffer of two chunks in RAM
LiveCalls ==
    {c \in FollowUpCalls : c.tx # Slice(SRAM_LOWER, 3) /\ c.cmd \in {0, 1}}

CallLive == \E c \in LiveCalls : Call(c.op, c.tx, c.rx, c.cmd)

LiveNext ==
    \/ CallLive
    \/ CpuStep
    \/ HwEndAny

NestedNext ==
    \/ CallMain
    \/ NestedCallAny
    \/ NestedReturn
    \/ CpuStep
    \/ HwEndAny

SpecNested == Init /\ [][NestedNext]_vars

\* The CPU keeps executing, and a peripheral that works ends the
\* transaction it has started.
SpecLive ==
    Init /\ [][LiveNext]_vars /\ WF_vars(CpuStep) /\ WF_vars(HwEndAny)


\* ------------------------------------------------------------------------
\* The ST7735 driver (src/utilities/src/st7735s.rs)
\* ------------------------------------------------------------------------
\* The driver is generic over its transport (SPI: SpiSendCommandData): what
\* it does is a sequence of send_command_data calls and of delays, and each
\* send_command_data returns Ok or an error.  An operation is modelled as
\* the list of steps its code takes when no step fails; the driver takes
\* them one at a time and the `?` of the code ends the operation at the
\* first send_command_data that returns an error.  A step that indexes a
\* buffer out of bounds, or overflows an integer in a build that checks
\* overflow, panics.
\* The staging buffer of write_command_words_iter is scaled from 32768
\* bytes to SPI_DATA_ITER_LEN; the 128 bytes of the other two are kept.

Instruction ==
    [NOP |-> 0, SWRESET |-> 1, RDDID |-> 4, RDDST |-> 9, SLPIN |-> 16,
     SLPOUT |-> 17, PTLON |-> 18, NORON |-> 19, INVOFF |-> 32, INVON |-> 33,
     DISPOFF |-> 40, DISPON |-> 41, CASET |-> 42, RASET |-> 43, RAMWR |-> 44,
     RAMRD |-> 46, PTLAR |-> 48, COLMOD |-> 58, MADCTL |-> 54,
     FRMCTR1 |-> 177, FRMCTR2 |-> 178, FRMCTR3 |-> 179, INVCTR |-> 180,
     DISSET5 |-> 182, PWCTR1 |-> 192, PWCTR2 |-> 193, PWCTR3 |-> 194,
     PWCTR4 |-> 195, PWCTR5 |-> 196, VMCTR1 |-> 197, RDID1 |-> 218,
     RDID2 |-> 219, RDID3 |-> 220, RDID4 |-> 221, PWCTR6 |-> 252,
     GMCTRP1 |-> 224, GMCTRN1 |-> 225]

Orientation ==
    [Portrait |-> 0, Landscape |-> 96, PortraitSwapped |-> 192,
     LandscapeSwapped |-> 160]

\* the length of spi_data in write_command and write_command_words
SPI_DATA_LEN == 128
\* the length of spi_data in write_command_words_iter (scaled)
SPI_DATA_ITER_LEN == 256
\* the delay of init, in milliseconds
INIT_DELAY_MS == 200
\* the bit init and set_orientation set for a BGR panel
MADCTL_BGR == 8

U16 == 65536

\* u16::to_be_bytes
to_be_bytes(word) == <<word \div 256, word % 256>>

\* the params of a command as the loops of write_command_words(_iter) lay
\* them out: two bytes a word, the high byte first
be_bytes(params) ==
    [i \in 1..(2 * Len(params)) |->
        to_be_bytes(params[(i + 1) \div 2])[2 - (i % 2)]]

\* a | b on unsigned integers
RECURSIVE BitOr(_, _)
BitOr(a, b) ==
    IF a = 0 /\ b = 0
    THEN 0
    ELSE (IF a % 2 = 1 \/ b % 2 = 1 THEN 1 ELSE 0)
         + 2 * BitOr(a \div 2, b \div 2)

\* a + b on u16: it panics when the build checks overflow, else it wraps
add_u16(a, b) ==
    [ok |-> (a + b < U16) \/ ~overflow_checks, v |-> (a + b) % U16]

\* v as u16
as_u16(v) == v % U16

\* The steps.  A frame is one call send_command_data(data, command_bytes);
\* command, params and words record the command it was built from and
\* whether its params are 16-bit words.
Frame(d, c, command, params, w) ==
    [step |-> "send", data |-> d, command_bytes |-> c, command |-> command,
     params |-> params, words |-> w, ms |-> 0]
delay_ms(ms) ==
    [step |-> "delay", data |-> <<>>, command_bytes |-> 0, command |-> 0,
     params |-> <<>>, words |-> FALSE, ms |-> ms]
Panic ==
    [step |-> "panic", data |-> <<>>, command_bytes |-> 0, command |-> 0,
     params |-> <<>>, words |-> FALSE, ms |-> 0]

write_command_two_selectors(command, params) ==
    IF Len(params) + 1 > SPI_DATA_LEN
    THEN Panic
    ELSE Frame(<<command>> \o params, 2, command, params, FALSE)

\* write_command: the opcode, then the params, in spi_data[..octets]
write_command(command, params) ==
    IF Len(params) + 1 > SPI_DATA_LEN
    THEN Panic
    ELSE Frame(<<command>> \o params, 1, command, params, FALSE)

\* write_command_words: the opcode, then two bytes a word
write_command_words(command, params) ==
    IF 2 * Len(params) + 1 > SPI_DATA_LEN
    THEN Panic
    ELSE Frame(<<command>> \o be_bytes(params), 1, command, params, TRUE)

\* write_command_words_iter: the same into a larger buffer; the loop writes
\* spi_data[offset + 1] unchecked and panics on the first word that does
\* not fit, before anything is sent
write_command_words_iter(command, params) ==
    IF 2 * Len(params) + 1 > SPI_DATA_ITER_LEN
    THEN Panic
    ELSE Frame(<<command>> \o be_bytes(params), 1, command, params, TRUE)

init_without_invctr ==
    <<write_command(Instruction.SWRESET, <<>>),
      delay_ms(INIT_DELAY_MS),
      write_command(Instruction.SLPOUT, <<>>),
      delay_ms(INIT_DELAY_MS),
      write_command(Instruction.FRMCTR1, <<1, 44, 45>>),
      write_command(Instruction.FRMCTR2, <<1, 44, 45>>),
      write_command(Instruction.FRMCTR3, <<1, 44, 45, 1, 44, 45>>),
      write_command(Instruction.PWCTR1, <<162, 2, 132>>),
      write_command(Instruction.PWCTR2, <<197>>),
      write_command(Instruction.PWCTR3, <<10, 0>>),
      write_command(Instruction.PWCTR4, <<138, 42>>),
      write_command(Instruction.PWCTR5, <<138, 238>>),
      write_command(Instruction.VMCTR1, <<14>>),
      write_command(Instruction.INVOFF, <<>>),
      write_command(Instruction.MADCTL, <<0>>),
      write_command(Instruction.COLMOD, <<5>>),
      write_command(Instruction.DISPON, <<>>),
      delay_ms(INIT_DELAY_MS)>>

\* init
init ==
    <<write_command(Instruction.SWRESET, <<>>),
      delay_ms(INIT_DELAY_MS),
      write_command(Instruction.SLPOUT, <<>>),
      delay_ms(INIT_DELAY_MS),
      write_command(Instruction.FRMCTR1, <<1, 44, 45>>),
      write_command(Instruction.FRMCTR2, <<1, 44, 45>>),
      write_command(Instruction.FRMCTR3, <<1, 44, 45, 1, 44, 45>>),
      write_command(Instruction.INVCTR, <<7>>),
      write_command(Instruction.PWCTR1, <<162, 2, 132>>),
      write_command(Instruction.PWCTR2, <<197>>),
      write_command(Instruction.PWCTR3, <<10, 0>>),
      write_command(Instruction.PWCTR4, <<138, 42>>),
      write_command(Instruction.PWCTR5, <<138, 238>>),
      write_command(Instruction.VMCTR1, <<14>>),
      IF inverted
      THEN write_command(Instruction.INVON, <<>>)
      ELSE write_command(Instruction.INVOFF, <<>>),
      IF rgb
      THEN write_command(Instruction.MADCTL, <<0>>)
      ELSE write_command(Instruction.MADCTL, <<MADCTL_BGR>>),
      write_command(Instruction.COLMOD, <<5>>),
      write_command(Instruction.DISPON, <<>>),
      delay_ms(INIT_DELAY_MS)>>

set_orientation_rgb_only(orientation) ==
    <<write_command(Instruction.MADCTL, <<Orientation[orientation]>>)>>

\* set_orientation
set_orientation(orientation) ==
    IF rgb
    THEN <<write_command(Instruction.MADCTL, <<Orientation[orientation]>>)>>
    ELSE <<write_command(Instruction.MADCTL,
                         <<BitOr(Orientation[orientation], MADCTL_BGR)>>)>>

\* one command of set_address_window: its two sums are made before the
\* command is written
window_command(command, s, e, d) ==
    LET a == add_u16(s, d)
        b == add_u16(e, d)
    IN  IF a.ok /\ b.ok
        THEN write_command_words(command, <<a.v, b.v>>)
        ELSE Panic

set_address_window_offsets_swapped(sx, sy, ex, ey) ==
    <<window_command(Instruction.CASET, sx, ex, dy),
      window_command(Instruction.RASET, sy, ey, dx)>>

\* set_address_window
set_address_window(sx, sy, ex, ey) ==
    <<window_command(Instruction.CASET, sx, ex, dx),
      window_command(Instruction.RASET, sy, ey, dy)>>

\* set_pixel
set_pixel(x, y, color) ==
    set_address_window(x, y, x, y)
    \o <<write_command_words(Instruction.RAMWR, <<color>>)>>

\* write_pixels
write_pixels(colors) ==
    <<write_command_words_iter(Instruction.RAMWR, colors)>>

write_pixels_buffered_one_by_one(colors) ==
    [i \in 1..Len(colors) |->
        write_command_words(Instruction.RAMWR, <<colors[i]>>)]

\* write_pixels_buffered
write_pixels_buffered(colors) ==
    <<write_command_words_iter(Instruction.RAMWR, colors)>>

\* set_pixels
set_pixels(sx, sy, ex, ey, colors) ==
    set_address_window(sx, sy, ex, ey) \o write_pixels(colors)

\* set_pixels_buffered
set_pixels_buffered(sx, sy, ex, ey, colors) ==
    set_address_window(sx, sy, ex, ey) \o write_pixels_buffered(colors)

\* the colour draw_rectangle streams at index i of a rectangle with fill
\* and stroke
rectangle_color(i, rect_width, rect_height, style) ==
    IF \/ i % rect_width <= style.stroke_width
       \/ i % rect_width >= rect_width - style.stroke_width
       \/ i <= style.stroke_width * rect_width
       \/ i >= (rect_height - style.stroke_width) * rect_width
    THEN style.stroke_color
    ELSE style.fill_color

\* the iterator draw_rectangle hands to set_pixels_buffered: (0..rect_size)
\* mapped to the fill colour, or to rectangle_color when there is a stroke
rectangle_iter(r) ==
    LET rect_width == r.bottom_right.x - r.top_left.x
        rect_height == r.bottom_right.y - r.top_left.y
        rect_size == rect_width * rect_height
    IN  [j \in 1..rect_size |->
            IF r.has_stroke
            THEN rectangle_color(j - 1, rect_width, rect_height, r)
            ELSE r.fill_color]

\* draw_rectangle of a rectangle with a fill colour (the styles without one
\* go through embedded-graphics' draw_iter and are not modelled)
draw_rectangle(r) ==
    set_pixels_buffered(as_u16(r.top_left.x), as_u16(r.top_left.y),
                        as_u16(r.bottom_right.x), as_u16(r.bottom_right.y),
                        rectangle_iter(r))

\* the steps of operation o with arguments a
Script(o, a) ==
    CASE o = "init" -> init
      [] o = "set_orientation" -> set_orientation(a.orientation)
      [] o = "set_pixel" -> set_pixel(a.x, a.y, a.color)
      [] o = "set_pixels" -> set_pixels(a.sx, a.sy, a.ex, a.ey, a.colors)
      [] o = "set_pixels_buffered" ->
            set_pixels_buffered(a.sx, a.sy, a.ex, a.ey, a.colors)
      [] o = "draw_rectangle" -> draw_rectangle(a)

\* An operation that returns a Result is called: nothing is sent yet.
DrvCall(o, a) ==
    /\ dpc = "idle"
    /\ dpc' = "run"
    /\ dop' = o
    /\ dargs' = a
    /\ script' = Script(o, a)
    /\ di' = 0
    /\ dres' = "none"
    /\ log' = <<>>
    /\ terr' = "none"
    /\ UNCHANGED <<rgb, inverted, dx, dy, overflow_checks>>
    /\ UNCHANGED eng

\* this set_offset repeats the arguments of a set_offset just before it
Again(a, b) == dop = "set_offset" /\ dargs.dx = a /\ dargs.dy = b

set_offset_accumulating(a, b) ==
    /\ dpc = "idle"
    /\ dx' = (dx + a) % U16
    /\ dy' = (dy + b) % U16
    /\ dop' = "set_offset"
    /\ dargs' = [dx |-> a, dy |-> b, again |-> Again(a, b)]
    /\ script' = <<>>
    /\ di' = 0
    /\ dres' = "unit"
    /\ log' = <<>>
    /\ terr' = "none"
    /\ UNCHANGED <<rgb, inverted, overflow_checks, dpc>>
    /\ UNCHANGED eng

\* set_offset: two assignments, no result
set_offset(a, b) ==
    /\ dpc = "idle"
    /\ dx' = a
    /\ dy' = b
    /\ dop' = "set_offset"
    /\ dargs' = [dx |-> a, dy |-> b, again |-> Again(a, b)]
    /\ script' = <<>>
    /\ di' = 0
    /\ dres' = "unit"
    /\ log' = <<>>
    /\ terr' = "none"
    /\ UNCHANGED <<rgb, inverted, overflow_checks, dpc>>
    /\ UNCHANGED eng

\* the step the operation is at
AtStep(s) == dpc = "run" /\ di < Len(script) /\ script[di + 1].step = s

\* send_command_data returns Ok: the operation goes on
SendOk ==
    /\ AtStep("send")
    /\ log' = Append(log, script[di + 1])
    /\ terr' = "Ok"
    /\ di' = di + 1
    /\ UNCHANGED <<rgb, inverted, dx, dy, overflow_checks, dpc, dop, dargs,
                   script, dres>>
    /\ UNCHANGED eng

\* the values of the transport's Error
TransportErrors ==
    {"TxBufferTooLong", "RxBufferTooLong", "DMABufferNotInDataMemory",
     "Transmit", "Receive"}

\* the error is dropped and the operation goes on to its next step
SendErr_ignored ==
    /\ AtStep("send")
    /\ log' = Append(log, script[di + 1])
    /\ \E e \in TransportErrors : terr' = e
    /\ di' = di + 1
    /\ UNCHANGED <<rgb, inverted, dx, dy, overflow_checks, dpc, dop, dargs,
                   script, dres>>
    /\ UNCHANGED eng

\* the failing operation also clears the stored offset
SendErr_offset_cleared ==
    /\ AtStep("send")
    /\ log' = Append(log, script[di + 1])
    /\ \E e \in TransportErrors : terr' = e
    /\ dres' = "Err"
    /\ dpc' = "idle"
    /\ dx' = 0
    /\ dy' = 0
    /\ UNCHANGED <<rgb, inverted, overflow_checks, dop, dargs, script, di>>
    /\ UNCHANGED eng

\* send_command_data returns an error: map_err and `?` return Err(())
SendErr ==
    /\ AtStep("send")
    /\ log' = Append(log, script[di + 1])
    /\ \E e \in TransportErrors : terr' = e
    /\ dres' = "Err"
    /\ dpc' = "idle"
    /\ UNCHANGED <<rgb, inverted, dx, dy, overflow_checks, dop, dargs, script,
                   di>>
    /\ UNCHANGED eng

Delay_unrecorded ==
    /\ UNCHANGED terr
    /\ AtStep("delay")
    /\ di' = di + 1
    /\ UNCHANGED <<rgb, inverted, dx, dy, overflow_checks, dpc, dop, dargs,
                   script, dres, log>>
    /\ UNCHANGED eng

\* delay.delay_ms returns after the delay
Delay ==
    /\ UNCHANGED terr
    /\ AtStep("delay")
    /\ log' = Append(log, script[di + 1])
    /\ di' = di + 1
    /\ UNCHANGED <<rgb, inverted, dx, dy, overflow_checks, dpc, dop, dargs,
                   script, dres>>
    /\ UNCHANGED eng

\* the operation panics: the program does not go on
DrvPanic ==
    /\ UNCHANGED terr
    /\ AtStep("panic")
    /\ dres' = "panic"
    /\ dpc' = "halt"
    /\ UNCHANGED <<rgb, inverted, dx, dy, overflow_checks, dop, dargs, script,
                   di, log>>
    /\ UNCHANGED eng

\* every step is done: the operation returns Ok(())
DrvReturnOk ==
    /\ UNCHANGED terr
    /\ dpc = "run"
    /\ di = Len(script)
    /\ dres' = "Ok"
    /\ dpc' = "idle"
    /\ UNCHANGED <<rgb, inverted, dx, dy, overflow_checks, dop, dargs, script,
                   di, log>>
    /\ UNCHANGED eng

\* The inputs.  Offsets: none, the one of examples/display.rs, and one that
\* overflows a u16 with every coordinate but 0.
Offsets == {<<0, 0>>, <<1, 26>>, <<U16 - 1, 0>>}

Windows == {<<10, 20, 50, 60>>, <<0, 0, 1, 1>>, <<0, U16 - 26, 3, U16 - 1>>}

Points == {<<0, 0>>, <<10, 20>>, <<U16 - 1, U16 - 1>>}

\* the most words write_command_words_iter can stage
MaxWords == (SPI_DATA_ITER_LEN - 1) \div 2

ColorLens == {0, 1, 3, MaxWords, MaxWords + 1}

\* a colour sequence of n distinct colours whose two bytes differ
Colors(n) == [i \in 1..n |-> (4660 + 1001 * i) % U16]

\* top_left and bottom_right of the rectangles drawn
Corners ==
    {<<0, 0, 10, 10>>, <<0, 0, 9, 9>>, <<0, 0, 3, 3>>, <<2, 1, 5, 7>>,
     <<0, 0, 0, 0>>, <<0, 0, 16, 8>>}

StrokeWidths == {0, 1, 2}

\* with a stroke of each width, and without a stroke
Rectangles ==
    {[top_left |-> [x |-> c[1], y |-> c[2]],
      bottom_right |-> [x |-> c[3], y |-> c[4]],
      has_stroke |-> (w >= 0), stroke_width |-> IF w >= 0 THEN w ELSE 0,
      fill_color |-> 31, stroke_color |-> 63488] :
        c \in Corners, w \in StrokeWidths \cup {-1}}

DrvCalls ==
    {[op |-> "init", args |-> <<>>]}
    \cup {[op |-> "set_orientation", args |-> [orientation |-> o]] :
            o \in DOMAIN Orientation}
    \cup {[op |-> "set_pixel", args |-> [x |-> p[1], y |-> p[2], color |-> c]] :
            p \in Points, c \in {31, 63488}}
    \cup {[op |-> o,
           args |-> [sx |-> w[1], sy |-> w[2], ex |-> w[3], ey |-> w[4],
                     colors |-> Colors(n)]] :
            o \in {"set_pixels", "set_pixels_buffered"}, w \in Windows,
            n \in ColorLens}
    \cup {[op |-> "draw_rectangle", args |-> r] : r \in Rectangles}

\* No operation but set_offset changes what the driver stores, so the calls
\* that follow a call are drawn from a smaller set; after set_offset every
\* call is made.
DrvFollowUpCalls ==
    {c \in DrvCalls : c.op \in {"init", "set_orientation", "set_pixel"}}

DrvCallAny ==
    \E c \in (IF dop \in {"none", "set_offset"}
              THEN DrvCalls ELSE DrvFollowUpCalls) :
        DrvCall(c.op, c.args)

set_offset_any == \E o \in Offsets : set_offset(o[1], o[2])

\* the driver is constructed for either panel and either build
DrvInit ==
    /\ SpimNew
    /\ \E r \in BOOLEAN, i \in BOOLEAN : ST7735_new(r, i)
    /\ overflow_checks \in BOOLEAN

DrvNext ==
    \/ DrvCallAny
    \/ set_offset_any
    \/ SendOk
    \/ SendErr
    \/ Delay
    \/ DrvPanic
    \/ DrvReturnOk

SpecDrv == DrvInit /\ [][DrvNext]_vars


\* ------------------------------------------------------------------------
\* Claims
\* ------------------------------------------------------------------------
\* the operation has returned
Returned == pc = "idle" /\ result # "none"

\* a descriptor that is empty or lies inside the addressable region
TxInRegion(d) == d.len = 0 \/ InRegion(d)

\* C1: every transaction that any operation starts has a transmit descriptor
\* that is of length 0 or lies entirely inside [SRAM_LOWER, SRAM_UPPER): the
\* DMA engine is never started with a non-empty transmit pointer outside it.
C1_TxDescriptorInRegion ==
    /\ \A i \in 1..Len(txns) : TxInRegion(txns[i].tx)
    /\ (dma.active => TxInRegion(dma.tx))

\* C1 witness: a transaction of Write::write for a buffer outside the region
\* is in flight, reading from the stack buffer
C1_Witness ==
    /\ dma.active
    /\ op = "Write_write"
    /\ ~InRegion(txbuf)
    /\ dma.tx.len > 0
    /\ dma.tx.ptr = BOUNCE_PTR


\* ------------------------------------------------------------------------
\* helpers of the claims
\* ------------------------------------------------------------------------
\* no byte of the slice is inside the addressable region
EntirelyOutside(s) == s.ptr + s.len <= SRAM_LOWER \/ s.ptr >= SRAM_UPPER

RECURSIVE SumTx(_)
\* the transmit lengths of a sequence of transactions, added up
SumTx(ts) == IF ts = <<>> THEN 0 ELSE ts[1].tx.len + SumTx(Tail(ts))

RECURSIVE SumRx(_)
\* the receive lengths of a sequence of transactions, added up
SumRx(ts) == IF ts = <<>> THEN 0 ELSE ts[1].rx.len + SumRx(Tail(ts))

\* the i-th piece of at most EASY_DMA_SIZE bytes of a buffer, as a
\* descriptor, and the null descriptor past the buffer's end
ChunkOrNull(s, i) ==
    IF (i - 1) * EASY_DMA_SIZE < s.len
    THEN Slice(s.ptr + (i - 1) * EASY_DMA_SIZE,
               Min(EASY_DMA_SIZE, s.len - (i - 1) * EASY_DMA_SIZE))
    ELSE Slice(0, 0)

\* the receive buffer holds n received bytes, at its start, and no more
StoredRx(n) ==
    \A j \in 0..(rxbuf.len - 1) :
        (rxbuf.ptr + j \in DOMAIN ram) = (j < n)

\* C2: for a buffer entirely outside the addressable region, write never
\* returns the buffer-location error, each of its transactions carries at
\* most FORCE_COPY_BUFFER_SIZE bytes taken from the bounce buffer, and (the
\* peripheral moving what it is asked) it succeeds and the bytes transmitted
\* are the buffer's bytes in order.
C2_WriteOutsideSucceeds ==
    (Returned /\ op \in {"Write_write", "write"} /\ EntirelyOutside(txbuf)) =>
        /\ result # "DMABufferNotInDataMemory"
        /\ \A i \in 1..Len(txns) :
               /\ txns[i].tx.len <= FORCE_COPY_BUFFER_SIZE
               /\ txns[i].tx.ptr = BOUNCE_PTR
        /\ (~fault => result = "Ok" /\ sent = Bytes0(txbuf))

\* C3: for a buffer fully inside the addressable region (stated here for
\* the buffers that slice_in_ram accepts as such), write and
\* transfer_split_uneven each succeed having transmitted exactly the bytes
\* of the buffer, every byte once and in order, whatever its length.
C3_ChunkingTransparent ==
    (/\ Returned
     /\ op \in {"Write_write", "write", "transfer_split_uneven"}
     /\ slice_in_ram(txbuf)
     /\ ~fault) =>
        /\ result = "Ok"
        /\ sent = Bytes0(txbuf)

\* C4: transfer_split_uneven with an addressable tx issues
\* max(ceil(len(tx)/EASY_DMA_SIZE), ceil(len(rx)/EASY_DMA_SIZE))
\* transactions, the i-th one carrying the i-th chunk of each side and a
\* null descriptor for a side that is past its end.
C4_UnevenUntilBothExhausted ==
    (/\ Returned
     /\ op = "transfer_split_uneven"
     /\ slice_in_ram(txbuf)
     /\ ~fault) =>
        /\ Len(txns) = Max(CeilDiv(txbuf.len, EASY_DMA_SIZE),
                           CeilDiv(rxbuf.len, EASY_DMA_SIZE))
        /\ \A i \in 1..Len(txns) :
               /\ txns[i].tx = ChunkOrNull(txbuf, i)
               /\ txns[i].rx = ChunkOrNull(rxbuf, i)

\* C5: transfer_split_uneven with unequal lengths that each fit in one
\* chunk transmits all of tx and stores exactly len(rx) bytes; when tx is
\* the shorter side its bytes are followed on the wire by len(rx) - len(tx)
\* over-read characters.
C5_UnevenOneChunk ==
    (/\ Returned
     /\ op = "transfer_split_uneven"
     /\ slice_in_ram(txbuf)
     /\ txbuf.len # rxbuf.len
     /\ txbuf.len <= EASY_DMA_SIZE
     /\ rxbuf.len <= EASY_DMA_SIZE
     /\ ~fault) =>
        /\ result = "Ok"
        /\ sent = Bytes0(txbuf)
        /\ StoredRx(rxbuf.len)
        /\ (txbuf.len < rxbuf.len =>
               wire = Bytes0(txbuf) \o
                      [j \in 1..(rxbuf.len - txbuf.len) |-> ORC])


\* the operations that begin with slice_in_ram_or(tx, DMABufferNotInDataMemory)
\* and have no other way to send the buffer
LocationCheckedOps ==
    {"Transfer_transfer", "transfer", "transfer_split_even",
     "transfer_split_uneven"}

\* C6: transfer, transfer_split_even and transfer_split_uneven called with
\* a transmit buffer that is not addressable return DMABufferNotInDataMemory
\* at once: no transaction is started, nothing is copied or received, and
\* the registers and the peripheral are as they were before the call.
C6_RejectedBeforeRegisters ==
    [][(pc = "idle" /\ op' \in LocationCheckedOps /\ ~InRegion(txbuf')) =>
          /\ pc' = "idle"
          /\ result' = "DMABufferNotInDataMemory"
          /\ regs' = regs
          /\ dma' = dma
          /\ txns' = <<>>
          /\ ram' = <<>>
          /\ wire' = <<>>]_vars

\* C6 witness: transfer_split_even was rejected for a buffer outside the
\* region while the registers held the descriptors of an earlier call
C6_Witness ==
    /\ Returned
    /\ op = "transfer_split_even"
    /\ ~InRegion(txbuf)
    /\ result = "DMABufferNotInDataMemory"
    /\ prev = "Ok"
    /\ txd_maxcnt > 0

\* C7: a buffer is classified as addressable exactly when it lies entirely
\* inside [SRAM_LOWER, SRAM_UPPER), i.e. SRAM_LOWER <= ptr and
\* ptr + len <= SRAM_UPPER: an operation that checks its buffer returns the
\* buffer-location error exactly for the buffers that do not.
C7_ClassifiedExactlyInRegion ==
    (Returned /\ op \in LocationCheckedOps \cup {"write", "send_command_data"}) =>
        ((result # "DMABufferNotInDataMemory") <=> InRegion(txbuf))

\* the CPU is in do_spi_dma_transfer and has not yet triggered the start task
BeforeStart ==
    pc \in {"dcx", "fence1", "txd_ptr", "txd_maxcnt", "rxd_ptr", "rxd_maxcnt",
            "start"}

\* the CPU is in do_spi_dma_transfer and has triggered the start task
AfterStart == pc \in {"fence2", "poll", "clear", "fence3", "amount"}

\* C8: a transaction whose reported transmitted amount differs from the
\* requested length returns Transmit with the END event cleared and the
\* peripheral idle; the call that follows meets no leftover END event,
\* starts each of its transactions with the descriptors it programmed
\* itself, leaves the poll loop on the END event of its own transaction and,
\* when its amounts equal the requested lengths, returns Ok.
C8_TransmitErrorLeavesEngineReady ==
    /\ ((Returned /\ result = "Transmit") =>
            events_end = 0 /\ ~dma.active /\ mism)
    /\ (prev = "Transmit" =>
          /\ ((pc = "iter" \/ BeforeStart) => events_end = 0 /\ ~dma.active)
          /\ (AfterStart =>
                /\ Len(txns) = k + 1
                /\ txns[k + 1].tx = Slice(dtx.ptr, MaxcntField(dtx.len))
                /\ txns[k + 1].rx = Slice(drx.ptr, MaxcntField(drx.len)))
          /\ (pc \in {"clear", "fence3", "amount"} =>
                ended = k + 1 /\ ~dma.active)
          /\ ((Returned /\ result # "DMABufferNotInDataMemory" /\ ~mism) =>
                result = "Ok"))

\* C8 witness: the call after one that returned Transmit has sent its bytes
\* and returned Ok
C8_Witness ==
    /\ prev = "Transmit"
    /\ Returned
    /\ result = "Ok"
    /\ Len(txns) > 0
    /\ sent = Bytes0(txbuf)

\* C9: transfer_split_even with buffers of different lengths stops at the
\* smaller one: the transmit lengths and the receive lengths it asks the
\* engine for both add up to min(len(tx), len(rx)).
C9_EvenStopsAtSmaller ==
    (/\ Returned
     /\ op = "transfer_split_even"
     /\ slice_in_ram(txbuf)
     /\ txbuf.len # rxbuf.len
     /\ ~fault) =>
        /\ SumTx(txns) = Min(txbuf.len, rxbuf.len)
        /\ SumRx(txns) = Min(txbuf.len, rxbuf.len)

\* C10: send_command_data(buffer, n) transmits the byte stream and returns
\* the result that write(buffer) does for every buffer, addressable or not
\* and of any length (Write::write returns Ok having sent the buffer's
\* bytes), framed with the selector count n.
C10_SendCommandDataIsWrite ==
    (Returned /\ op = "send_command_data" /\ ~fault) =>
        /\ result = "Ok"
        /\ sent = Bytes0(txbuf)
        /\ \A i \in 1..Len(txns) : txns[i].dcx = cmd

\* ------------------------------------------------------------------------
\* Claims on the driver
\* ------------------------------------------------------------------------
\* the frames among the entries of a log
Frames(l) == SelectSeq(l, LAMBDA e : e.step = "send")

\* the first byte of each of them
Opcodes(l) == [i \in 1..Len(Frames(l)) |-> Frames(l)[i].data[1]]

\* the 16-bit word number j (from 1) after the opcode of a frame's buffer
WordAt(d, j) == d[2 * j] * 256 + d[2 * j + 1]

\* the opcodes init is to send, in order
InitOpcodes ==
    <<Instruction.SWRESET, Instruction.SLPOUT, Instruction.FRMCTR1,
      Instruction.FRMCTR2, Instruction.FRMCTR3, Instruction.INVCTR,
      Instruction.PWCTR1, Instruction.PWCTR2, Instruction.PWCTR3,
      Instruction.PWCTR4, Instruction.PWCTR5, Instruction.VMCTR1,
      IF inverted THEN Instruction.INVON ELSE Instruction.INVOFF,
      Instruction.MADCTL, Instruction.COLMOD, Instruction.DISPON>>

\* C11: the frames init has sent are, at every moment, the first ones of
\* SWRESET, SLPOUT, FRMCTR1, FRMCTR2, FRMCTR3, INVCTR, PWCTR1..PWCTR5,
\* VMCTR1, INVON when inverted else INVOFF, MADCTL, COLMOD, DISPON, one
\* frame a command, and an init that returns Ok has sent them all.
C11_InitOrder ==
    dop = "init" =>
        LET sent_ops == Opcodes(log)
        IN  /\ Len(sent_ops) <= Len(InitOpcodes)
            /\ \A i \in 1..Len(sent_ops) : sent_ops[i] = InitOpcodes[i]
            /\ (dres = "Ok" => Len(sent_ops) = Len(InitOpcodes))

C11_Witness == dop = "init" /\ dres = "Ok" /\ inverted

\* the commands init follows with a delay
DelayedOpcodes ==
    {Instruction.SWRESET, Instruction.SLPOUT, Instruction.DISPON}

\* C12: in init, what follows the frame of SWRESET, of SLPOUT and of DISPON
\* is a delay of 200 ms, no frame comes in between, and an init that
\* returns Ok has made the delay after DISPON.
C12_InitDelays ==
    dop = "init" =>
        /\ \A i \in 1..(Len(log) - 1) :
              (log[i].step = "send" /\ log[i].data[1] \in DelayedOpcodes)
              => (log[i + 1].step = "delay" /\ log[i + 1].ms = 200)
        /\ (dres = "Ok" =>
              /\ Len(log) >= 2
              /\ log[Len(log)].step = "delay"
              /\ log[Len(log)].ms = 200
              /\ log[Len(log) - 1].step = "send"
              /\ log[Len(log) - 1].data[1] = Instruction.DISPON)
        /\ (dpc = "run" /\ Len(log) >= 1 /\ log[Len(log)].step = "send"
            /\ log[Len(log)].data[1] \in DelayedOpcodes
            => script[di + 1].step = "delay")

C12_Witness == dop = "init" /\ dres = "Ok" /\ ~inverted

\* the number of commands of an operation that returns Ok
CommandsOf(o) ==
    CASE o = "init" -> Len(InitOpcodes)
      [] o = "set_orientation" -> 1
      [] o \in {"set_pixel", "set_pixels", "set_pixels_buffered",
                "draw_rectangle"} -> 3

\* C13: every frame in the log was handed over with a selector count of 1,
\* starts with the opcode of its command and goes on with its params, a byte
\* each (1 + n bytes) or two bytes each, the high one first (1 + 2n bytes);
\* an operation that returns Ok has made one send_command_data call for
\* each of its commands.
C13_OneFramePerCommand ==
    /\ \A i \in 1..Len(log) :
          log[i].step = "send" =>
              LET f == log[i]
                  n == Len(f.params)
              IN  /\ f.command_bytes = 1
                  /\ f.data[1] = f.command
                  /\ f.command \in {Instruction[c] : c \in DOMAIN Instruction}
                  /\ IF f.words
                     THEN /\ Len(f.data) = 1 + 2 * n
                          /\ \A j \in 1..n :
                                /\ WordAt(f.data, j) = f.params[j]
                                /\ f.data[2 * j] < 256
                                /\ f.data[2 * j + 1] < 256
                     ELSE /\ Len(f.data) = 1 + n
                          /\ \A j \in 1..n : f.data[1 + j] = f.params[j]
    /\ (dres = "Ok" => Len(Frames(log)) = CommandsOf(dop))

C13_Witness ==
    /\ dop = "set_pixels"
    /\ dres = "Ok"
    /\ Len(dargs.colors) = 3
    /\ Len(log[3].data) = 7

\* the operations that begin with set_address_window
WindowOps ==
    {"set_pixel", "set_pixels", "set_pixels_buffered", "draw_rectangle"}

\* the window (sx, sy, ex, ey) the operation hands to set_address_window
WindowOf(o, a) ==
    CASE o = "set_pixel" -> <<a.x, a.y, a.x, a.y>>
      [] o \in {"set_pixels", "set_pixels_buffered"} ->
            <<a.sx, a.sy, a.ex, a.ey>>
      [] o = "draw_rectangle" ->
            <<a.top_left.x, a.top_left.y, a.bottom_right.x, a.bottom_right.y>>

C15_SetOffsetStoresOnly ==
    /\ [][dop' = "set_offset" =>
            /\ dx' = dargs'.dx
            /\ dy' = dargs'.dy
            /\ log' = <<>>
            /\ script' = <<>>
            /\ UNCHANGED <<rgb, inverted, dpc>>
            /\ UNCHANGED eng]_vars
    /\ [](dop \in WindowOps /\ Len(log) >= 2 =>
            LET w == WindowOf(dop, dargs)
            IN  /\ WordAt(log[1].data, 1) = (w[1] + dx) % U16
                /\ WordAt(log[1].data, 2) = (w[3] + dx) % U16
                /\ WordAt(log[2].data, 1) = (w[2] + dy) % U16
                /\ WordAt(log[2].data, 2) = (w[4] + dy) % U16)

C15_Witness ==
    /\ dop = "set_pixel"
    /\ dres = "Ok"
    /\ dx = 1
    /\ dy = 26
    /\ dargs.x = 10
    /\ WordAt(log[1].data, 1) = 11

\* C16: a set_offset that repeats the arguments of the set_offset just
\* before it leaves everything the driver stores, on which alone the frames
\* of the operations that follow depend, as the first one left it, and
\* sends nothing.
C16_SetOffsetIdempotent ==
    [][dop' = "set_offset" /\ dargs'.again =>
            /\ UNCHANGED <<rgb, inverted, dx, dy, dpc>>
            /\ log' = <<>>
            /\ UNCHANGED eng]_vars

C16_Witness ==
    /\ dop = "set_offset"
    /\ dargs.again
    /\ dx = 1
    /\ dy = 26

\* the sums of set_address_window fit 16 bits
WindowFits ==
    LET w == WindowOf(dop, dargs)
    IN  w[1] + dx < U16 /\ w[3] + dx < U16 /\ w[2] + dy < U16 /\ w[4] + dy < U16

\* C17 (as claimed): a set_pixels whose window fits and whose transport
\* calls all return Ok ends, whatever the number of colours, by returning
\* Ok after three frames, the third being RAMWR followed by every colour
\* as two bytes, the high one first.
C17_SetPixelsOneFrame ==
    (dop = "set_pixels" /\ dpc # "run" /\ dres # "Err" /\ WindowFits) =>
        /\ dres = "Ok"
        /\ Len(log) = 3
        /\ log[3].step = "send"
        /\ log[3].data[1] = Instruction.RAMWR
        /\ Len(log[3].data) = 1 + 2 * Len(dargs.colors)
        /\ \A j \in 1..Len(dargs.colors) :
              WordAt(log[3].data, j) = dargs.colors[j]

\* what is left of a script s once an execution has logged l and ended
\* with result r: the log is the start of s, all of s when r is Ok, and the
\* next step of s panics when r is panic
Executes(s, l, r) ==
    /\ Len(l) <= Len(s)
    /\ \A i \in 1..Len(l) : l[i] = s[i]
    /\ (r = "Ok" => Len(l) = Len(s))
    /\ (r = "panic" => Len(l) < Len(s) /\ s[Len(l) + 1].step = "panic")

\* C18: what an execution of set_pixels has handed to the transport, and
\* its result, are what set_pixels_buffered does for the same arguments,
\* offset and transport results, and the other way round; write_pixels and
\* write_pixels_buffered build the same frame from the same colours.
C18_BufferedSameFrames ==
    dop \in {"set_pixels", "set_pixels_buffered"} =>
        LET a == dargs
            other == IF dop = "set_pixels"
                     THEN set_pixels_buffered(a.sx, a.sy, a.ex, a.ey, a.colors)
                     ELSE set_pixels(a.sx, a.sy, a.ex, a.ey, a.colors)
        IN  /\ Executes(other, log, dres)
            /\ write_pixels(a.colors) = write_pixels_buffered(a.colors)

C18_Witness ==
    /\ dop = "set_pixels_buffered"
    /\ dres = "Ok"
    /\ Len(dargs.colors) = 3
    /\ Len(log) = 3

\* C19 (as claimed): in the frame draw_rectangle sends for a rectangle
\* with fill and stroke, the pixel of row i \div rect_width and column
\* i % rect_width has the stroke colour exactly when its row or its column
\* is among the first or the last stroke_width ones, else the fill colour:
\* with 10 rows and columns and stroke_width 1, rows and columns 0 and 9.
C19_StrokeIsBorder ==
    (dop = "draw_rectangle" /\ dargs.has_stroke /\ Len(log) >= 3) =>
        LET rect_width == dargs.bottom_right.x - dargs.top_left.x
            rect_height == dargs.bottom_right.y - dargs.top_left.y
            sw == dargs.stroke_width
        IN  \A i \in 0..(rect_width * rect_height - 1) :
                LET row == i \div rect_width
                    col == i % rect_width
                    border == \/ row < sw
                              \/ row >= rect_height - sw
                              \/ col < sw
                              \/ col >= rect_width - sw
                IN  WordAt(log[3].data, i + 1) =
                        IF border THEN dargs.stroke_color ELSE dargs.fill_color

\* the byte MADCTL is to carry for an orientation on a BGR panel
BgrByte(o) ==
    CASE o = "Portrait" -> 8
      [] o = "Landscape" -> 104
      [] o = "PortraitSwapped" -> 200
      [] o = "LandscapeSwapped" -> 168

\* the same on an RGB panel
RgbByte(o) ==
    CASE o = "Portrait" -> 0
      [] o = "Landscape" -> 96
      [] o = "PortraitSwapped" -> 192
      [] o = "LandscapeSwapped" -> 160

\* C20: set_orientation hands the transport one frame, MADCTL with one
\* byte: 00, 60, C0 or A0 for Portrait, Landscape, PortraitSwapped or
\* LandscapeSwapped, with bit 08 set exactly when the panel is not RGB; the
\* MADCTL frame of init carries 00 on an RGB panel and 08 on a BGR one.
C20_OrientationByte ==
    /\ dop = "set_orientation" =>
          /\ Len(log) <= 1
          /\ (dres = "Ok" => Len(log) = 1)
          /\ \A i \in 1..Len(log) :
                log[i].data =
                    <<54, IF rgb THEN RgbByte(dargs.orientation)
                          ELSE BgrByte(dargs.orientation)>>
    /\ dop = "init" =>
          \A i \in 1..Len(log) :
              (log[i].step = "send" /\ log[i].data[1] = 54)
              => log[i].data = <<54, IF rgb THEN 0 ELSE 8>>

C20_Witness ==
    /\ dop = "set_orientation"
    /\ dargs.orientation = "Landscape"
    /\ ~rgb
    /\ dres = "Ok"
    /\ log[1].data = <<54, 104>>

\* C21: once a send_command_data call of a driver operation has returned
\* an error, whichever, the operation has returned Err(()) and what it
\* handed to the transport are its steps up to the failed call, each once,
\* the failed call last; the step on which the call fails leaves the stored
\* offset as it was.
C21_TransportErrorEndsOperation ==
    /\ [](terr \in TransportErrors =>
            /\ dpc = "idle"
            /\ dres = "Err"
            /\ Len(log) = di + 1
            /\ \A i \in 1..Len(log) : log[i] = script[i]
            /\ log[Len(log)].step = "send")
    /\ [][terr' \in TransportErrors => dx' = dx /\ dy' = dy]_vars

\* no RASET after a failed CASET
C21_Witness ==
    /\ dop = "set_pixel"
    /\ terr = "Transmit"
    /\ dres = "Err"
    /\ Len(log) = 1
    /\ log[1].data[1] = Instruction.CASET
    /\ dx = 1

\* ------------------------------------------------------------------------
\* Claims on the steps of a transaction
\* ------------------------------------------------------------------------
\* the statements of do_spi_dma_transfer, in order
StepOrder ==
    <<"fence1", "txd_ptr", "txd_maxcnt", "rxd_ptr", "rxd_maxcnt", "start",
      "fence2", "poll", "clear", "fence3", "amount">>

TxnSteps == {StepOrder[i] : i \in 1..Len(StepOrder)}

\* statement b is the one after statement a
Follows(a, b) ==
    \E i \in 1..(Len(StepOrder) - 1) : StepOrder[i] = a /\ StepOrder[i + 1] = b

\* the four pointer/length registers hold the descriptors of the transaction
\* the CPU is executing
RegistersCurrent ==
    /\ txd_ptr = dtx.ptr
    /\ txd_maxcnt = MaxcntField(dtx.len)
    /\ rxd_ptr = drx.ptr
    /\ rxd_maxcnt = MaxcntField(drx.len)

\* a pointer/length register is written with another value
RegisterRewritten ==
    \/ txd_ptr' # txd_ptr
    \/ txd_maxcnt' # txd_maxcnt
    \/ rxd_ptr' # rxd_ptr
    \/ rxd_maxcnt' # rxd_maxcnt

\* the start task is triggered
Started == Len(txns') = Len(txns) + 1

\* C22: the CPU goes through a transaction in the order fence, TXD.PTR,
\* TXD.MAXCNT, RXD.PTR, RXD.MAXCNT, start, fence, poll, clear, fence, amount
\* check: a statement is entered from the one before it only (the first from
\* the chunk iterator or from the selector count write), each register is
\* written at its own statement, the start task is triggered only with all
\* four registers holding the current descriptors, the poll is left only
\* with the END event set, the event is cleared only at the clear statement,
\* and at the amount check the END event of every started transaction has
\* been raised and cleared.
C22_FixedStepOrder ==
    /\ [][/\ (pc' # pc /\ pc \in TxnSteps /\ pc # "amount" => Follows(pc, pc'))
          /\ (pc' # pc /\ pc = "amount" => pc' \in {"iter", "idle"})
          /\ (pc' # pc /\ pc' \in TxnSteps =>
                IF pc' = "fence1" THEN pc \in {"iter", "dcx"}
                ELSE Follows(pc, pc'))
          /\ (txd_ptr' # txd_ptr => pc = "txd_ptr")
          /\ (txd_maxcnt' # txd_maxcnt => pc = "txd_maxcnt")
          /\ (rxd_ptr' # rxd_ptr => pc = "rxd_ptr")
          /\ (rxd_maxcnt' # rxd_maxcnt => pc = "rxd_maxcnt")
          /\ (Started => pc = "start" /\ RegistersCurrent)
          /\ (pc = "poll" /\ pc' # "poll" => events_end # 0)
          /\ (events_end # 0 /\ events_end' = 0 => pc = "clear")]_vars
    /\ [](pc \in {"fence3", "amount"} =>
            events_end = 0 /\ ended = Len(txns) /\ ~dma.active)

\* the second chunk of an operation is at its amount check
C22_Witness ==
    /\ pc = "amount"
    /\ Len(txns) = 2
    /\ ended = 2
    /\ RegistersCurrent
    /\ dtx.len > 0

\* C23: the step that leaves the amount check returns Transmit when
\* TXD.AMOUNT differs from the requested transmit length (whatever
\* RXD.AMOUNT), Receive when only RXD.AMOUNT differs from the requested
\* receive length, and else goes on without an error; no other step
\* produces Transmit or Receive.
C23_AmountCheckDecides ==
    [][/\ (pc = "amount" /\ pc' # pc =>
             IF txd_amount # dtx.len
             THEN pc' = "idle" /\ result' = "Transmit"
             ELSE IF rxd_amount # drx.len
             THEN pc' = "idle" /\ result' = "Receive"
             ELSE pc' = "iter" /\ result' = "none" /\ k' = k + 1)
       /\ (result' \in {"Transmit", "Receive"} /\ result' # result =>
             pc = "amount")]_vars

\* both amounts differed and the result is Transmit
C23_Witness ==
    /\ Returned
    /\ result = "Transmit"
    /\ Len(txns) >= 1
    /\ txd_amount # txns[Len(txns)].tx.len
    /\ rxd_amount # txns[Len(txns)].rx.len
    /\ txns[Len(txns)].rx.len > 0

\* the operations that iterate over chunks
MultiChunkOps == OpNames \ {"send_command_data"}

\* C24: in an operation that iterates over chunks, once the amounts of a
\* transaction have differed from the requested lengths and its check is
\* made, the operation has returned Transmit or Receive; then the failed
\* transaction is the last one started, each item was given one
\* transaction, in order, and the bytes of the chunks before it have been
\* sent.
C24_ChunkFailureEndsOperation ==
    op \in MultiChunkOps =>
        /\ (mism /\ ~AfterStart => Returned /\ result \in {"Transmit", "Receive"})
        /\ (Returned /\ result \in {"Transmit", "Receive"} =>
              /\ Len(txns) = k + 1
              /\ ended = k + 1
              /\ \A i \in 1..Len(txns) : txns[i].item = i
              /\ LET n == SumTx(SubSeq(txns, 1, k))
                 IN  /\ Len(sent) >= n
                     /\ SubSeq(sent, 1, n) = SubSeq(Bytes0(txbuf), 1, n))

\* the second of three chunks failed after the first was sent
C24_Witness ==
    /\ op = "Write_write"
    /\ Returned
    /\ result = "Transmit"
    /\ Len(Items(op, txbuf, rxbuf)) = 3
    /\ k = 1
    /\ Len(txns) = 2
    /\ Len(sent) >= EASY_DMA_SIZE

\* C25: while the CPU is not between a start task and the clearing of its
\* END event, no transaction is in flight, the END event is clear and every
\* started transaction has ended: so it is whenever a register is rewritten,
\* the start task is triggered or an operation returns; the transactions of
\* an operation are those of its items in order, each chunk beginning where
\* the one before it ends.
C25_OneTransactionInFlight ==
    /\ []((pc \in {"iter", "fence3", "amount"} \/ BeforeStart \/ Returned) =>
            ~dma.active /\ events_end = 0 /\ ended = Len(txns))
    /\ [](\A i \in 1..Len(txns) :
            /\ txns[i].item = i
            /\ LET its == Items(op, txbuf, rxbuf)
               IN  (i > 1 /\ its[i].tx.len > 0) =>
                      its[i].tx.ptr = its[i - 1].tx.ptr + its[i - 1].tx.len)
    /\ [][(RegisterRewritten \/ Started) =>
            ~dma.active /\ events_end = 0 /\ ended = Len(txns)]_vars

\* three chunks were sent one after another
C25_Witness ==
    /\ Returned
    /\ result = "Ok"
    /\ Len(txns) = 3
    /\ ended = 3
    /\ txns[3].tx.len > 0

\* C28: in send_command_data the selector count register is written at the
\* statement before the first fence, with the count of the call, so that
\* from the first fence on, and so at the start task, it holds the count of
\* this call: every transaction of the call is framed with it.
C28_SelectorCountOfSameCall ==
    /\ [](op = "send_command_data" =>
            /\ (pc \in TxnSteps => dcxcnt = cmd)
            /\ \A i \in 1..Len(txns) : txns[i].dcx = cmd)
    /\ [][dcxcnt' # dcxcnt =>
            pc = "dcx" /\ pc' = "fence1" /\ dcxcnt' = cmd]_vars

\* a send_command_data after another call has framed its transaction
C28_Witness ==
    /\ op = "send_command_data"
    /\ prev # "none"
    /\ cmd = 2
    /\ Len(txns) = 1
    /\ txns[1].dcx = 2
    /\ Returned

\* C29 (as claimed): in every operation, send_command_data too, the
\* transmit length and the receive length a transaction is given are at
\* most EASY_DMA_SIZE, and they are what its start task finds in the
\* length registers.
C29_LengthsWithinDmaMax ==
    /\ (pc \in TxnSteps =>
          dtx.len <= EASY_DMA_SIZE /\ drx.len <= EASY_DMA_SIZE)
    /\ (AfterStart =>
          /\ txns[Len(txns)].tx.len = dtx.len
          /\ txns[Len(txns)].rx.len = drx.len)

\* the in-place operations
InPlaceOps == {"Transfer_transfer", "transfer"}

\* C30 (as claimed): transfer(buffer) on a buffer inside the addressable
\* region has, when it returns with the peripheral having moved what it was
\* asked, made one transaction for each consecutive chunk of at most
\* EASY_DMA_SIZE bytes, in order, with that chunk as both descriptors: the
\* buffer's bytes were sent once, in order, and each position holds the
\* byte received while its own byte was sent.
C30_TransferInPlace ==
    (op \in InPlaceOps /\ InRegion(txbuf) /\ Returned /\ ~fault) =>
        /\ result = "Ok"
        /\ Len(txns) = CeilDiv(txbuf.len, EASY_DMA_SIZE)
        /\ \A i \in 1..Len(txns) :
              /\ txns[i].tx = ChunkOrNull(txbuf, i)
              /\ txns[i].rx = txns[i].tx
        /\ sent = Bytes0(txbuf)
        /\ wire = sent
        /\ Bytes(txbuf) = [j \in 1..txbuf.len |-> Miso(j - 1)]

\* C26: with a peripheral that ends every transaction it has started, an
\* operation that has been called returns; and the poll has no way out
\* but the END event: while the event is not set the CPU stays in the poll.
C26_ReturnsIfEndEventComes ==
    /\ (pc # "idle") ~> (pc = "idle" /\ result # "none")
    /\ [][pc = "poll" /\ events_end = 0 => pc' = "poll"]_vars

\* the CPU is in the poll of a transaction that has not ended
C26_Witness ==
    /\ pc = "poll"
    /\ events_end = 0
    /\ dma.active
    /\ Len(txns) = 2
    /\ prev # "none"

\* the last transaction started is not the one the executing call
\* programmed: its start task found other descriptors in the registers
ForeignRegisters ==
    /\ AfterStart
    /\ \/ Len(txns) = 0
       \/ txns[Len(txns)].tx # Slice(dtx.ptr, MaxcntField(dtx.len))
       \/ txns[Len(txns)].rx # Slice(drx.ptr, MaxcntField(drx.len))

\* the executing call has left its poll on an END event that is not the one
\* of its own transaction
ForeignEndEvent ==
    /\ pc \in {"clear", "fence3", "amount"}
    /\ (dma.active \/ ended # Len(txns))

\* C27: a call is past its start task with a transaction in the registers
\* that it did not program, or past its poll without its own transaction's
\* END event, only in a behaviour in which a call has run nested inside
\* another; with the calls one after another there is no such state.
C27_ExclusionNeeded == (ForeignRegisters \/ ForeignEndEvent) => nested

\* the interrupted call goes on after a nested call and starts or checks a
\* transaction of the nested call's registers
C27_Witness ==
    /\ nested
    /\ saved = <<>>
    /\ ForeignRegisters

\* ------------------------------------------------------------------------
\* Claims on the write operations, the selector count and the driver's
\* arithmetic
\* ------------------------------------------------------------------------
\* the operations that only transmit
WriteOps == {"Write_write", "write", "send_command_data"}

\* C31: every transaction started by Write::write, write or
\* send_command_data has a receive descriptor of length 0, and the end of
\* such a transaction stores no byte: the memory is as it was before.
C31_WriteReceivesNothing ==
    /\ [](op \in WriteOps =>
            /\ \A i \in 1..Len(txns) : txns[i].rx.len = 0
            /\ (dma.active => dma.rx.len = 0))
    /\ [][(op \in WriteOps /\ dma.active /\ dma' = DmaIdle) => (ram' = ram)]_vars

\* a write of two chunks through the stack buffer has ended both of its
\* transactions
C31_Witness ==
    /\ op = "Write_write"
    /\ Write_needs_copy(txbuf)
    /\ Len(txns) = 2
    /\ ended = 2
    /\ rxd_amount = 0

\* the two bytes of a sum of set_address_window, the high one first, were
\* the sum the mathematical one
SumBytes(v) == <<v \div 256, v % 256>>

\* C32 (as claimed): a set_pixel(x, y, color) whose transport calls all
\* return Ok ends by returning Ok after exactly three frames: CASET with
\* x + dx twice, RASET with y + dy twice, and RAMWR with the two bytes of
\* color, the high one first.
C32_SetPixelThreeFrames ==
    (dop = "set_pixel" /\ dpc # "run" /\ dres # "Err") =>
        /\ dres = "Ok"
        /\ Len(log) = 3
        /\ \A i \in 1..3 : log[i].step = "send"
        /\ log[1].data = <<Instruction.CASET>> \o SumBytes(dargs.x + dx)
                            \o SumBytes(dargs.x + dx)
        /\ log[2].data = <<Instruction.RASET>> \o SumBytes(dargs.y + dy)
                            \o SumBytes(dargs.y + dy)
        /\ log[3].data = <<Instruction.RAMWR, dargs.color \div 256,
                           dargs.color % 256>>

RECURSIVE ItemBytes(_)
\* the bytes the transmit sides of a work list hold, item after item
ItemBytes(its) ==
    IF its = <<>> THEN <<>> ELSE Bytes0(its[1].tx) \o ItemBytes(Tail(its))

\* the work list an operation goes through for a transmit buffer when the
\* peripheral moves what it is asked: none if the entry check fails
WorkOf(o, t) ==
    IF entry_check(o, t) = "Ok" THEN Items(o, t, Slice(RX_PTR, 0)) ELSE <<>>

\* the other one of the two write operations
OtherWrite(o) == IF o = "Write_write" THEN "write" ELSE "Write_write"

\* C33 (as claimed): what a call of Write::write or of the inherent write
\* has done when it returns (the peripheral moving what it is asked) is
\* what the other of the two does for the same buffer: the same result,
\* as many transactions of the same lengths, the same bytes sent.
C33_WritesEquivalent ==
    (Returned /\ op \in {"Write_write", "write"} /\ ~fault) =>
        LET its == WorkOf(OtherWrite(op), txbuf)
        IN  /\ result = entry_check(OtherWrite(op), txbuf)
            /\ Len(txns) = Len(its)
            /\ \A i \in 1..Min(Len(txns), Len(its)) :
                  txns[i].tx.len = its[i].tx.len
            /\ sent = ItemBytes(its)

\* the operations that do not take a selector count
PlainOps == OpNames \ {"send_command_data"}

WindowPixels(c, r) ==
    (WordAt(c.data, 2) - WordAt(c.data, 1) + 1)
        * (WordAt(r.data, 2) - WordAt(r.data, 1) + 1)

\* C35 (as claimed): the RAMWR frame of a rectangle drawn with a fill
\* colour only carries as many colour words as the window set by the CASET
\* and RASET frames before it has pixels, (ex - sx + 1) * (ey - sy + 1).
C35_FillCoversWindow ==
    (dop = "draw_rectangle" /\ ~dargs.has_stroke /\ Len(log) >= 3) =>
        /\ log[1].data[1] = Instruction.CASET
        /\ log[2].data[1] = Instruction.RASET
        /\ log[3].data[1] = Instruction.RAMWR
        /\ (Len(log[3].data) - 1) \div 2 = WindowPixels(log[1], log[2])

\* C36 (as claimed): an operation that sets the address window never aborts
\* in set_address_window, and its CASET and RASET frames carry sx + dx,
\* ex + dx and sy + dy, ey + dy, each the sum of the integers.
C36_WindowSumsExact ==
    dop \in WindowOps =>
        LET w == WindowOf(dop, dargs)
        IN  /\ (dpc = "halt" => Len(log) >= 2)
            /\ (Len(log) >= 1 =>
                  log[1].data = <<Instruction.CASET>> \o SumBytes(w[1] + dx)
                                    \o SumBytes(w[3] + dx))
            /\ (Len(log) >= 2 =>
                  log[2].data = <<Instruction.RASET>> \o SumBytes(w[2] + dy)
                                    \o SumBytes(w[4] + dy))

\* C37: the stored offset is (0, 0) until the first operation, it changes
\* in a step of set_offset alone, which makes it the step's arguments, and
\* every other step, of an operation that goes on, returns Ok, fails or
\* aborts, leaves it as it is.
C37_OffsetIsLastSetOffset ==
    /\ [](dop = "none" => dx = 0 /\ dy = 0)
    /\ [](dop = "set_offset" => dx = dargs.dx /\ dy = dargs.dy)
    /\ [][dop' = "set_offset" => dx' = dargs'.dx /\ dy' = dargs'.dy]_vars
    /\ [][dop' # "set_offset" => dx' = dx /\ dy' = dy]_vars

\* an init that follows set_offset(1, 26) has failed at a later frame than
\* its first, the offset being what set_offset stored
C37_Witness ==
    /\ dop = "init"
    /\ dres = "Err"
    /\ Len(log) > 3
    /\ dx = 1
    /\ dy = 26

====
